---- MODULE Spec2Model ----
(***************************************************************************)
(* Model of atomic_yaml_to_md.py: the conversion of an Atomic Red Team     *)
(* YAML document into the Markdown page of the technique.                  *)
(*                                                                         *)
(* Text is a sequence of one-character strings, so that trimming, regular  *)
(* expression substitution, HTML escaping and the joining of lines are      *)
(* computed character by character, as the Python code computes them.       *)
(* A YAML value is a tagged record (null, bool, int, str, list, dict); a    *)
(* dict is the sequence of its (key, value) pairs in insertion order.       *)
(***************************************************************************)
EXTENDS Integers, Sequences, FiniteSets, TLC

VARIABLES pc, s, anchor, reanchor, cell, escaped, pair, anchors,
          doc, attack_desc, md, args, env, outfile, log

slugVars == <<s, anchor, reanchor>>
cellVars == <<cell, escaped>>
pairVars == <<pair, anchors>>
renderVars == <<doc, attack_desc, md>>
mainVars == <<args, env, outfile, log>>

vars == <<pc, slugVars, cellVars, pairVars, renderVars, mainVars>>

-----------------------------------------------------------------------------
(* Bounds of the model.                                                    *)

MaxLen == 3
MaxCellLen == 3
MaxTests == 2
MaxArgs == 2
MaxIndex == 12
MaxNameLen == 2

-----------------------------------------------------------------------------
(* Characters.                                                             *)

UpperSeq == <<"A", "B", "C", "D", "E", "F", "G", "H", "I", "J", "K", "L", "M",
              "N", "O", "P", "Q", "R", "S", "T", "U", "V", "W", "X", "Y", "Z">>
LowerSeq == <<"a", "b", "c", "d", "e", "f", "g", "h", "i", "j", "k", "l", "m",
              "n", "o", "p", "q", "r", "s", "t", "u", "v", "w", "x", "y", "z">>
DigitSeq == <<"0", "1", "2", "3", "4", "5", "6", "7", "8", "9">>

Range(f) == {f[i] : i \in DOMAIN f}

\* str.isspace / the regular expression class \s, on ASCII
IsSpace(c) == c \in {" ", "\t", "\n", "\r", "\f"}

\* the regular expression class \w, on ASCII
IsWord(c) == c \in Range(UpperSeq) \cup Range(LowerSeq) \cup Range(DigitSeq) \cup {"_"}

\* the characters str.splitlines and a Markdown reader take as the end of a line
IsLineBreak(c) == c \in {"\n", "\r", "\f"}

LowerChar(c) ==
    IF c \in Range(UpperSeq)
    THEN LowerSeq[CHOOSE i \in DOMAIN UpperSeq : UpperSeq[i] = c]
    ELSE c

UpperChar(c) ==
    IF c \in Range(LowerSeq)
    THEN UpperSeq[CHOOSE i \in DOMAIN LowerSeq : LowerSeq[i] = c]
    ELSE c

-----------------------------------------------------------------------------
(* Operations of str and re on text.                                       *)

\* str.lower
Lower(t) == [i \in DOMAIN t |-> LowerChar(t[i])]

RECURSIVE LStrip(_)
LStrip(t) == IF t # <<>> /\ IsSpace(Head(t)) THEN LStrip(Tail(t)) ELSE t

RECURSIVE RStrip(_)
RStrip(t) ==
    IF t # <<>> /\ IsSpace(t[Len(t)]) THEN RStrip(SubSeq(t, 1, Len(t) - 1)) ELSE t

\* str.strip
Strip(t) == RStrip(LStrip(t))

\* re.sub(r"[^\w\s-]", "", s): drops what is neither \w, nor \s, nor a hyphen
RemoveSpecial(t) == SelectSeq(t, LAMBDA c : IsWord(c) \/ IsSpace(c) \/ c = "-")

\* s.replace(old, new) for a one-character old
RECURSIVE Replace(_, _, _)
Replace(t, old, new) ==
    IF t = <<>> THEN <<>>
    ELSE (IF Head(t) = old THEN new ELSE <<Head(t)>>) \o Replace(Tail(t), old, new)

\* re.sub(r"\s+", "-", s): every maximal run of whitespace becomes one hyphen
RECURSIVE SpacesToHyphen(_)
SpacesToHyphen(t) ==
    IF t = <<>> THEN <<>>
    ELSE IF IsSpace(Head(t)) THEN <<"-">> \o SpacesToHyphen(LStrip(t))
    ELSE <<Head(t)>> \o SpacesToHyphen(Tail(t))

\* re.sub(r"-+", "-", s): every maximal run of hyphens becomes one hyphen
RECURSIVE CollapseHyphens(_)
CollapseHyphens(t) ==
    IF t = <<>> THEN <<>>
    ELSE IF Head(t) = "-" /\ Len(t) > 1 /\ t[2] = "-" THEN CollapseHyphens(Tail(t))
    ELSE <<Head(t)>> \o CollapseHyphens(Tail(t))

\* the same two substitutions in the other order
slugify_swapped(t) ==
    SpacesToHyphen(CollapseHyphens(Replace(RemoveSpecial(Lower(Strip(t))), ".", <<>>)))

slugify_github_anchor(t) ==
    CollapseHyphens(SpacesToHyphen(Replace(RemoveSpecial(Lower(Strip(t))), ".", <<>>)))

-----------------------------------------------------------------------------
(* YAML values as Python objects.                                          *)

VNone == [k |-> "null"]
VBool(b) == [k |-> "bool", b |-> b]
VInt(n) == [k |-> "int", n |-> n]
VStr(t) == [k |-> "str", s |-> t]
VList(items) == [k |-> "list", items |-> items]
VDict(pairs) == [k |-> "dict", pairs |-> pairs]

\* isinstance(v, dict)
IsDict(v) == v.k = "dict"

\* Python truth value
Truthy(v) ==
    CASE v.k = "null" -> FALSE
      [] v.k = "bool" -> v.b
      [] v.k = "int" -> v.n # 0
      [] v.k = "str" -> v.s # <<>>
      [] v.k = "list" -> v.items # <<>>
      [] v.k = "dict" -> v.pairs # <<>>

\* x or default
OrElse(v, default) == IF Truthy(v) THEN v ELSE default

HasKey(d, key) == \E i \in DOMAIN d.pairs : d.pairs[i].key = key

\* dict.get(key, default)
Get(d, key, default) ==
    IF HasKey(d, key)
    THEN d.pairs[CHOOSE i \in DOMAIN d.pairs : d.pairs[i].key = key].val
    ELSE default

\* str(n) of a natural number
RECURSIVE Digits(_)
Digits(n) ==
    IF n < 10 THEN <<DigitSeq[n + 1]>> ELSE Digits(n \div 10) \o <<DigitSeq[(n % 10) + 1]>>

\* repr(s) of a str: single quotes, unless s holds one and no double quote
RECURSIVE ReprBody(_, _)
ReprBody(t, quote) ==
    IF t = <<>> THEN <<>>
    ELSE (CASE Head(t) = "\\" -> <<"\\", "\\">>
            [] Head(t) = quote -> <<"\\", quote>>
            [] Head(t) = "\n" -> <<"\\", "n">>
            [] Head(t) = "\t" -> <<"\\", "t">>
            [] Head(t) = "\r" -> <<"\\", "r">>
            [] OTHER -> <<Head(t)>>) \o ReprBody(Tail(t), quote)

ReprStr(t) ==
    LET quote == IF "'" \in Range(t) /\ "\"" \notin Range(t) THEN "\"" ELSE "'"
    IN  <<quote>> \o ReprBody(t, quote) \o <<quote>>

\* sep.join(parts)
RECURSIVE Join(_, _)
Join(sep, parts) ==
    IF parts = <<>> THEN <<>>
    ELSE IF Len(parts) = 1 THEN parts[1]
    ELSE parts[1] \o sep \o Join(sep, Tail(parts))

\* repr(v), which str(v) uses for the elements of a list or dict
RECURSIVE PyRepr(_)
PyRepr(v) ==
    CASE v.k = "null" -> <<"N", "o", "n", "e">>
      [] v.k = "bool" -> IF v.b THEN <<"T", "r", "u", "e">> ELSE <<"F", "a", "l", "s", "e">>
      [] v.k = "int" -> IF v.n < 0 THEN <<"-">> \o Digits(0 - v.n) ELSE Digits(v.n)
      [] v.k = "str" -> ReprStr(v.s)
      [] v.k = "list" ->
            <<"[">> \o Join(<<",", " ">>, [i \in DOMAIN v.items |-> PyRepr(v.items[i])]) \o <<"]">>
      [] v.k = "dict" ->
            <<"{">> \o Join(<<",", " ">>, [i \in DOMAIN v.pairs |->
                        ReprStr(v.pairs[i].key) \o <<":", " ">> \o PyRepr(v.pairs[i].val)])
                  \o <<"}">>

\* str(v)
PyStr(v) == IF v.k = "str" THEN v.s ELSE PyRepr(v)

-----------------------------------------------------------------------------
(* Field escapers.                                                         *)

md_escape_inline(v) == IF v.k = "null" THEN <<>> ELSE Strip(PyStr(v))

\* html.escape(s, quote=True): & first, then <, >, the two quotes
html_escape(t) ==
    Replace(Replace(Replace(Replace(Replace(t,
        "&", <<"&", "a", "m", "p", ";">>),
        "<", <<"&", "l", "t", ";">>),
        ">", <<"&", "g", "t", ";">>),
        "\"", <<"&", "q", "u", "o", "t", ";">>),
        "'", <<"&", "#", "x", "2", "7", ";">>)

BackslashEntity == <<"&", "#", "9", "2", ";">>

\* the backslash substitution before the HTML escape
md_escape_table_swapped(v) ==
    IF v.k = "null" THEN <<>>
    ELSE html_escape(Replace(Strip(PyStr(v)), "\\", BackslashEntity))

md_escape_table(v) ==
    IF v.k = "null" THEN <<>>
    ELSE Replace(html_escape(Strip(PyStr(v))), "\\", BackslashEntity)

-----------------------------------------------------------------------------
(* Bounded text.                                                           *)

RECURSIVE TextsUpTo(_, _)
TextsUpTo(alphabet, n) ==
    IF n = 0 THEN {<<>>}
    ELSE LET shorter == TextsUpTo(alphabet, n - 1)
         IN  shorter \cup {Append(t, c) : t \in shorter, c \in alphabet}

\* occurrences of a character
Count(t, c) == Cardinality({i \in DOMAIN t : t[i] = c})

\* t[i..] starts with p
MatchAt(t, i, p) == i + Len(p) - 1 <= Len(t) /\ SubSeq(t, i, i + Len(p) - 1) = p

StartsWith(t, p) == MatchAt(t, 1, p)

Contains(t, p) == \E i \in 1..(Len(t) + 1) : MatchAt(t, i, p)

\* non-overlapping occurrences of p, scanning from the left
RECURSIVE Occurrences(_, _)
Occurrences(t, p) ==
    IF Len(t) < Len(p) THEN 0
    ELSE IF StartsWith(t, p) THEN 1 + Occurrences(SubSeq(t, Len(p) + 1, Len(t)), p)
    ELSE Occurrences(Tail(t), p)

-----------------------------------------------------------------------------
(* Field formatters.                                                       *)

code_fence_lang(executor_name) ==
    LET name == Lower(Strip(executor_name))
    IN  IF name \in {<<"c", "o", "m", "m", "a", "n", "d", "_", "p", "r", "o", "m", "p", "t">>,
                     <<"c", "m", "d">>}
        THEN <<"c", "m", "d">>
        ELSE IF name \in {<<"p", "o", "w", "e", "r", "s", "h", "e", "l", "l">>,
                          <<"p", "w", "s", "h">>}
        THEN <<"p", "o", "w", "e", "r", "s", "h", "e", "l", "l">>
        ELSE IF name = <<"b", "a", "s", "h">> THEN <<"b", "a", "s", "h">>
        ELSE IF name = <<"s", "h">> THEN <<"s", "h">>
        ELSE <<"t", "e", "x", "t">>

\* the nested titlecase of fmt_supported_platforms
titlecase(p0) ==
    LET p == Strip(p0)
    IN  IF Lower(p) = <<"m", "a", "c", "o", "s">> THEN <<"m", "a", "c", "O", "S">>
        ELSE IF p = <<>> THEN <<>>
        ELSE <<UpperChar(Head(p))>> \o Tail(p)

\* what "for x in v" yields: the items of a list, the keys of a dict, the
\* characters of a str
Elements(v) ==
    CASE v.k = "list" -> v.items
      [] v.k = "dict" -> [i \in DOMAIN v.pairs |-> VStr(v.pairs[i].key)]
      [] v.k = "str" -> [i \in DOMAIN v.s |-> VStr(<<v.s[i]>>)]

\* iter(v) raises TypeError
NotIterable(v) == v.k \in {"null", "bool", "int"}

\* fmt_supported_platforms raises: the value cannot be iterated, or an element
\* has no strip()
PlatformsRaise(platforms) ==
    /\ Truthy(platforms)
    /\ \/ NotIterable(platforms)
       \/ \E i \in DOMAIN Elements(platforms) : Elements(platforms)[i].k # "str"

fmt_supported_platforms(platforms) ==
    IF ~Truthy(platforms) THEN <<>>
    ELSE Join(<<",", " ">>,
              [i \in DOMAIN Elements(platforms) |-> titlecase(Elements(platforms)[i].s)])

-----------------------------------------------------------------------------
(* Dictionary keys and fixed text of the renderer.                         *)

K_name == <<"n", "a", "m", "e">>
K_description == <<"d", "e", "s", "c", "r", "i", "p", "t", "i", "o", "n">>
K_supported_platforms ==
    <<"s", "u", "p", "p", "o", "r", "t", "e", "d", "_", "p", "l", "a", "t", "f", "o", "r", "m", "s">>
K_auto_generated_guid ==
    <<"a", "u", "t", "o", "_", "g", "e", "n", "e", "r", "a", "t", "e", "d", "_", "g", "u", "i", "d">>
K_input_arguments ==
    <<"i", "n", "p", "u", "t", "_", "a", "r", "g", "u", "m", "e", "n", "t", "s">>
K_executor == <<"e", "x", "e", "c", "u", "t", "o", "r">>
K_elevation_required ==
    <<"e", "l", "e", "v", "a", "t", "i", "o", "n", "_", "r", "e", "q", "u", "i", "r", "e", "d">>
K_command == <<"c", "o", "m", "m", "a", "n", "d">>
K_cleanup_command == <<"c", "l", "e", "a", "n", "u", "p", "_", "c", "o", "m", "m", "a", "n", "d">>
K_atomic_tests == <<"a", "t", "o", "m", "i", "c", "_", "t", "e", "s", "t", "s">>
K_attack_technique ==
    <<"a", "t", "t", "a", "c", "k", "_", "t", "e", "c", "h", "n", "i", "q", "u", "e">>
K_display_name == <<"d", "i", "s", "p", "l", "a", "y", "_", "n", "a", "m", "e">>
K_type == <<"t", "y", "p", "e">>
K_default == <<"d", "e", "f", "a", "u", "l", "t">>

\* "Atomic Test #"
AtomicTestNo == <<"A", "t", "o", "m", "i", "c", " ", "T", "e", "s", "t", " ", "#">>
\* "- [" and "](#" and ")"
TocOpen == <<"-", " ", "[">>
TocMid == <<"]", "(", "#">>
TocClose == <<")">>
\* "## "
H2 == <<"#", "#", " ">>
\* "#### Inputs:"
InputsHeading == <<"#", "#", "#", "#", " ", "I", "n", "p", "u", "t", "s", ":">>
\* "| Name | Description | Type | Default Value |"
TableHeader ==
    <<"|", " ", "N", "a", "m", "e", " ", "|", " ", "D", "e", "s", "c", "r", "i", "p", "t", "i",
      "o", "n", " ", "|", " ", "T", "y", "p", "e", " ", "|", " ", "D", "e", "f", "a", "u", "l",
      "t", " ", "V", "a", "l", "u", "e", " ", "|">>
\* "|------|-------------|------|---------------|"
TableSeparator ==
    <<"|", "-", "-", "-", "-", "-", "-", "|", "-", "-", "-", "-", "-", "-", "-", "-", "-", "-",
      "-", "-", "-", "|", "-", "-", "-", "-", "-", "-", "|", "-", "-", "-", "-", "-", "-", "-",
      "-", "-", "-", "-", "-", "-", "-", "-", "|">>
\* "#### Attack Commands:"
AttackCommands ==
    <<"#", "#", "#", "#", " ", "A", "t", "t", "a", "c", "k", " ", "C", "o", "m", "m", "a", "n",
      "d", "s", ":">>
\* the grave accent, which a TLA+ string cannot hold, as a character of its own
Backtick == "GRAVE"
\* " Run with " and "!", around the quoted executor name
RunWith == <<" ", "R", "u", "n", " ", "w", "i", "t", "h", " ", Backtick>>
RunWithEnd == <<Backtick, "!">>
\* "  Elevation Required (e.g. root or admin) "
ElevationRequired ==
    <<" ", " ", "E", "l", "e", "v", "a", "t", "i", "o", "n", " ", "R", "e", "q", "u", "i", "r",
      "e", "d", " ", "(", "e", ".", "g", ".", " ", "r", "o", "o", "t", " ", "o", "r", " ", "a",
      "d", "m", "i", "n", ")", " ">>
\* "#### Cleanup Commands:"
CleanupCommands ==
    <<"#", "#", "#", "#", " ", "C", "l", "e", "a", "n", "u", "p", " ", "C", "o", "m", "m", "a",
      "n", "d", "s", ":">>
\* the code fence
Fence == <<Backtick, Backtick, Backtick>>
\* "<br/>"
Br == <<"<", "b", "r", "/", ">">>
\* "<blockquote>" and "</blockquote>"
BlockquoteOpen == <<"<", "b", "l", "o", "c", "k", "q", "u", "o", "t", "e", ">">>
BlockquoteClose == <<"<", "/", "b", "l", "o", "c", "k", "q", "u", "o", "t", "e", ">">>
\* "## Atomic Tests"
AtomicTestsHeading == <<"#", "#", " ", "A", "t", "o", "m", "i", "c", " ", "T", "e", "s", "t", "s">>
\* "## [Description from ATT&CK](https://attack.mitre.org/techniques/"
DescriptionHeading ==
    <<"#", "#", " ", "[", "D", "e", "s", "c", "r", "i", "p", "t", "i", "o", "n", " ", "f", "r",
      "o", "m", " ", "A", "T", "T", "&", "C", "K", "]", "(", "h", "t", "t", "p", "s", ":", "/",
      "/", "a", "t", "t", "a", "c", "k", ".", "m", "i", "t", "r", "e", ".", "o", "r", "g", "/",
      "t", "e", "c", "h", "n", "i", "q", "u", "e", "s", "/">>
\* "**Supported Platforms:** " and "**auto_generated_guid:** "
PlatformsLabel ==
    <<"*", "*", "S", "u", "p", "p", "o", "r", "t", "e", "d", " ", "P", "l", "a", "t", "f", "o",
      "r", "m", "s", ":", "*", "*", " ">>
GuidLabel ==
    <<"*", "*", "a", "u", "t", "o", "_", "g", "e", "n", "e", "r", "a", "t", "e", "d", "_", "g",
      "u", "i", "d", ":", "*", "*", " ">>

Blank == <<>>

-----------------------------------------------------------------------------
(* build_markdown.                                                         *)

\* name = md_escape_inline(t.get("name", f"Atomic Test #{idx}"))
TestName(idx, t) == md_escape_inline(Get(t, K_name, VStr(AtomicTestNo \o Digits(idx))))

\* the heading without the " - " between the index and the name
HeadingNoSeparator(idx, t) == AtomicTestNo \o Digits(idx) \o TestName(idx, t)

\* f"Atomic Test #{idx} - {name}"
Heading(idx, t) == AtomicTestNo \o Digits(idx) \o <<" ", "-", " ">> \o TestName(idx, t)

\* anchor = slugify_github_anchor(heading)
TocAnchor(idx, t) == slugify_github_anchor(Heading(idx, t))

\* f"- [Atomic Test #{idx} - {name}](#{anchor})"
TocEntry(idx, t) == TocOpen \o Heading(idx, t) \o TocMid \o TocAnchor(idx, t) \o TocClose

\* the table of contents: an entry and a blank line per test
RECURSIVE TocLines(_, _)
TocLines(tests, idx) ==
    IF idx > Len(tests) THEN <<>>
    ELSE <<TocEntry(idx, tests[idx]), Blank>> \o TocLines(tests, idx + 1)

\* the row whose default goes through the inline policy
ParamRowInlineDefault(key, v0) ==
    LET v == OrElse(v0, VDict(<<>>))
    IN  <<"|", " ">> \o md_escape_inline(VStr(key)) \o
        <<" ", "|", " ">> \o md_escape_inline(Get(v, K_description, VNone)) \o
        <<" ", "|", " ">> \o md_escape_inline(Get(v, K_type, VNone)) \o
        <<" ", "|", " ">> \o md_escape_inline(Get(v, K_default, VNone)) \o <<"|">>

\* one row of the inputs table, for the entry k: v
ParamRow(key, v0) ==
    LET v == OrElse(v0, VDict(<<>>))
    IN  <<"|", " ">> \o md_escape_inline(VStr(key)) \o
        <<" ", "|", " ">> \o md_escape_inline(Get(v, K_description, VNone)) \o
        <<" ", "|", " ">> \o md_escape_inline(Get(v, K_type, VNone)) \o
        <<" ", "|", " ">> \o md_escape_table(Get(v, K_default, VNone)) \o <<"|">>

\* "#### Inputs:" and the table, when input_arguments is a non-empty dict
InputLines(t) ==
    LET input_args == OrElse(Get(t, K_input_arguments, VNone), VDict(<<>>))
    IN  IF IsDict(input_args) /\ Truthy(input_args)
        THEN <<InputsHeading, TableHeader, TableSeparator>> \o
             [j \in DOMAIN input_args.pairs |->
                 ParamRow(input_args.pairs[j].key, input_args.pairs[j].val)] \o
             <<Blank, Blank>>
        ELSE <<>>

\* v.get(...) raises for an entry of input_arguments that is truthy and no dict
InputsRaise(t) ==
    LET input_args == OrElse(Get(t, K_input_arguments, VNone), VDict(<<>>))
    IN  /\ IsDict(input_args)
        /\ \E j \in DOMAIN input_args.pairs :
              ~IsDict(OrElse(input_args.pairs[j].val, VDict(<<>>)))

\* the "#### Attack Commands:" line
CommandsHeading(ex_name, elev_txt) ==
    IF ex_name # <<>>
    THEN AttackCommands \o RunWith \o ex_name \o RunWithEnd \o elev_txt
    ELSE AttackCommands

\* elev_txt = "  Elevation Required (e.g. root or admin) " if elev is True else ""
ElevTxt(elev) == IF elev.k = "bool" /\ elev.b THEN ElevationRequired ELSE <<>>

\* the executor part of a section: heading, command and cleanup command
ExecutorLines(t) ==
    LET ex == OrElse(Get(t, K_executor, VNone), VDict(<<>>))
        ex_name == IF IsDict(ex) THEN md_escape_inline(Get(ex, K_name, VStr(<<>>))) ELSE <<>>
        elev == IF IsDict(ex) THEN Get(ex, K_elevation_required, VNone) ELSE VNone
        cmd == IF IsDict(ex) THEN Get(ex, K_command, VNone) ELSE VNone
        cleanup == IF IsDict(ex) THEN Get(ex, K_cleanup_command, VNone) ELSE VNone
    IN  <<CommandsHeading(ex_name, ElevTxt(elev)), Blank>> \o
        (IF Truthy(cmd)
         THEN <<Fence \o code_fence_lang(ex_name), md_escape_inline(cmd), Fence, Blank>>
         ELSE <<>>) \o
        (IF Truthy(cleanup)
         THEN <<CleanupCommands, Fence \o code_fence_lang(ex_name),
                md_escape_inline(cleanup), Fence, Blank, Blank>>
         ELSE <<>>)

\* the section heading numbered from 0
SectionHeadingFromZero(idx, t) == H2 \o Heading(idx - 1, t)

\* f"## Atomic Test #{idx} - {name}"
SectionHeading(idx, t) == H2 \o Heading(idx, t)

\* the section of one test
SectionLines(idx, t) ==
    LET desc == OrElse(Get(t, K_description, VNone), VStr(<<>>))
        platforms == OrElse(Get(t, K_supported_platforms, VNone), VList(<<>>))
        guid == md_escape_inline(Get(t, K_auto_generated_guid, VStr(<<>>)))
    IN  <<SectionHeading(idx, t)>> \o
        (IF Truthy(desc) THEN <<md_escape_inline(desc), Blank>> ELSE <<>>) \o
        (IF Truthy(platforms)
         THEN <<PlatformsLabel \o fmt_supported_platforms(platforms), Blank>>
         ELSE <<>>) \o
        (IF guid # <<>> THEN <<GuidLabel \o guid, Blank>> ELSE <<>>) \o
        <<Blank, Blank, Blank, Blank>> \o
        InputLines(t) \o
        ExecutorLines(t) \o
        <<Blank, Br, Br, Blank>>

RECURSIVE AllSections(_, _)
AllSections(tests, idx) ==
    IF idx > Len(tests) THEN <<>>
    ELSE SectionLines(idx, tests[idx]) \o AllSections(tests, idx + 1)

\* tests = doc.get("atomic_tests") or []
TestsOf(d) == OrElse(Get(d, K_atomic_tests, VNone), VList(<<>>))

\* rendering the test t raises
TestRaises(t) ==
    \/ ~IsDict(t)
    \/ PlatformsRaise(OrElse(Get(t, K_supported_platforms, VNone), VList(<<>>)))
    \/ InputsRaise(t)

\* build_markdown raises instead of returning
BuildRaises(d) ==
    \/ NotIterable(TestsOf(d))
    \/ \E i \in DOMAIN Elements(TestsOf(d)) : TestRaises(Elements(TestsOf(d))[i])

\* the list "lines" at the end of build_markdown
Lines(d, desc) ==
    LET tech == md_escape_inline(Get(d, K_attack_technique, VStr(<<>>)))
        display == md_escape_inline(Get(d, K_display_name, Get(d, K_name, VStr(<<>>))))
        tests == Elements(TestsOf(d))
    IN  << <<"#", " ">> \o tech \o <<" ", "-", " ">> \o display,
           DescriptionHeading \o tech \o <<")">>,
           BlockquoteOpen,
           Blank,
           IF Truthy(desc) THEN Strip(desc.s) ELSE Blank,
           Blank,
           BlockquoteClose,
           Blank,
           AtomicTestsHeading,
           Blank >> \o
        TocLines(tests, 1) \o
        <<Blank, Br, Blank>> \o
        AllSections(tests, 1) \o
        <<Br>>

Raised == [status |-> "raised", text |-> <<>>]

build_markdown(d, desc) ==
    IF BuildRaises(d) THEN Raised
    ELSE [status |-> "ok", text |-> RStrip(Join(<<"\n">>, Lines(d, desc))) \o <<"\n">>]

-----------------------------------------------------------------------------
(* Reading the rendered text back: lines, list items, table cells.         *)

\* the segments of t between occurrences of the character c
RECURSIVE SplitOn(_, _)
SplitOn(t, c) ==
    IF \A i \in DOMAIN t : t[i] # c THEN <<t>>
    ELSE LET i == CHOOSE n \in DOMAIN t : t[n] = c /\ \A m \in 1..(n - 1) : t[m] # c
         IN  <<SubSeq(t, 1, i - 1)>> \o SplitOn(SubSeq(t, i + 1, Len(t)), c)

\* the lines of the document; the final newline ends the last line
OutputLines(text) ==
    LET parts == SplitOn(text, "\n")
    IN  IF parts[Len(parts)] = <<>> THEN SubSeq(parts, 1, Len(parts) - 1) ELSE parts

EndsWith(t, p) == Len(p) <= Len(t) /\ SubSeq(t, Len(t) - Len(p) + 1, Len(t)) = p

\* the number of non-blank lines at the front of ls
RECURSIVE NonBlankRun(_)
NonBlankRun(ls) == IF ls = <<>> \/ Head(ls) = <<>> THEN 0 ELSE 1 + NonBlankRun(Tail(ls))

\* the list items that open with p: the line that opens with p and the lines
\* that continue it, up to the next blank line
RECURSIVE Items(_, _)
Items(ls, p) ==
    IF ls = <<>> THEN <<>>
    ELSE IF StartsWith(Head(ls), p)
    THEN LET n == NonBlankRun(ls)
         IN  <<Join(<<"\n">>, SubSeq(ls, 1, n))>> \o Items(SubSeq(ls, n + 1, Len(ls)), p)
    ELSE Items(Tail(ls), p)

NoLink == <<"no link">>

\* the target of the link of an item "- [text](#target)": the text ends at
\* the first "]", which "(#" has to follow
LinkTarget(item) ==
    IF "]" \notin Range(item) THEN NoLink
    ELSE LET i == CHOOSE n \in DOMAIN item : item[n] = "]" /\ \A m \in 1..(n - 1) : item[m] # "]"
             rest == SubSeq(item, i + Len(TocMid), Len(item))
         IN  IF ~MatchAt(item, i, TocMid) \/ ")" \notin Range(rest) THEN NoLink
             ELSE SplitOn(rest, ")")[1]

TocPrefix == TocOpen \o AtomicTestNo
HeadingPrefix == H2 \o AtomicTestNo

TocItems(text) == Items(OutputLines(text), TocPrefix)
HeadingLines(text) == SelectSeq(OutputLines(text), LAMBDA l : StartsWith(l, HeadingPrefix))

\* the heading text of a "## ..." line
HeadingText(line) == SubSeq(line, Len(H2) + 1, Len(line))

HasLineBreak(t) == \E i \in DOMAIN t : IsLineBreak(t[i])

-----------------------------------------------------------------------------
(* Rendering: build_markdown applied to a document.                        *)

Pair(key, val) == [key |-> key, val |-> val]

\* a document with the technique T1 and the given tests
DocWith(tests) ==
    VDict(<<Pair(K_attack_technique, VStr(<<"T", "1">>)),
            Pair(K_display_name, VStr(<<"N", "a", "m", "e">>)),
            Pair(K_atomic_tests, tests)>>)

RECURSIVE SeqsUpTo(_, _)
SeqsUpTo(S, n) ==
    IF n = 0 THEN {<<>>}
    ELSE LET shorter == SeqsUpTo(S, n - 1)
         IN  shorter \cup {Append(q, x) : q \in shorter, x \in S}

\* the values of the variables a specification does not use
NoResult == [status |-> "none", text |-> <<>>]
IdleSlug == s = <<>> /\ anchor = <<>> /\ reanchor = <<>>
IdleCell == cell = VNone /\ escaped = <<>>
IdlePair == pair = [i |-> 0, j |-> 0, ti |-> VNone, tj |-> VNone] /\ anchors = <<>>
IdleRender == doc = VNone /\ attack_desc = VNone /\ md = NoResult
IdleMain ==
    /\ args = [attack_desc_file |-> FALSE, fetch_mitre |-> FALSE]
    /\ env = [yaml |-> VNone, file |-> "none", fetch |-> "none"]
    /\ outfile = <<>> /\ log = <<>>

InitRender(docs) ==
    /\ pc = "doc"
    /\ doc \in docs
    /\ attack_desc \in {VNone, VStr(<<"d">>)}
    /\ md = NoResult
    /\ IdleSlug /\ IdleCell /\ IdlePair /\ IdleMain

\* md = build_markdown(doc, attack_desc=attack_desc)
Render ==
    /\ pc = "doc"
    /\ md' = build_markdown(doc, attack_desc)
    /\ pc' = "rendered"
    /\ UNCHANGED <<doc, attack_desc, slugVars, cellVars, pairVars, mainVars>>

Tests(d) == Elements(TestsOf(d))

(* --- table of contents and section headings --------------------------- *)

TocNames ==
    { <<>>, <<"A", "b">>, <<" ", "n", "e", "t", ".", "e", "x", "e">>, <<"a", " ", "-", " ", "1">>,
      <<"a", "\n", "b">>, <<"a", "]", "b">> }

TocTests ==
    {VDict(<<>>), VDict(<<Pair(K_name, VNone)>>)} \cup
    {VDict(<<Pair(K_name, VStr(n)), Pair(K_description, VStr(<<"d", "o", "e", "s">>))>>) :
        n \in TocNames}

InitToc == InitRender({DocWith(VList(ts)) : ts \in SeqsUpTo(TocTests, MaxTests)})

SpecToc == InitToc /\ [][Render]_vars

\* n entries, n headings, numbered 1..n in order, and each entry links to the
\* anchor of its heading
TocMatchesSections ==
    LET n == Len(Tests(doc))
        toc == TocItems(md.text)
        heads == HeadingLines(md.text)
    IN  /\ Len(toc) = n
        /\ Len(heads) = n
        /\ \A i \in 1..n :
              /\ StartsWith(toc[i], TocPrefix \o Digits(i) \o <<" ", "-", " ">>)
              /\ StartsWith(heads[i], HeadingPrefix \o Digits(i) \o <<" ", "-", " ">>)
              /\ LinkTarget(toc[i]) = slugify_github_anchor(HeadingText(heads[i]))

\* C1 as stated: for any names, the output has n table-of-contents entries and
\* n section headings "Atomic Test #<i> - <name>" in the order of the tests, and
\* the i-th link target is the slug of the i-th section heading.
C1_AnyName == (pc = "rendered" /\ md.status = "ok") => TocMatchesSections

\* the name of the test, as rendered, is one line and holds no "]"
PlainName(idx, t) ==
    ~HasLineBreak(TestName(idx, t)) /\ "]" \notin Range(TestName(idx, t))

\* C1 amended: when no rendered name holds a line break or a "]", the output has
\* n table-of-contents entries and n section headings, the i-th being
\* "## Atomic Test #<i> - <name>", and the i-th link target is the slug of the
\* i-th section heading.
C1_PlainNames ==
    (/\ pc = "rendered" /\ md.status = "ok"
     /\ \A i \in DOMAIN Tests(doc) : PlainName(i, Tests(doc)[i]))
    => /\ TocMatchesSections
       /\ \A i \in DOMAIN Tests(doc) :
             HeadingLines(md.text)[i] = H2 \o Heading(i, Tests(doc)[i])

\* two tests, one without a name, and a name with a dot, have been rendered
C1_Witness ==
    /\ pc = "rendered" /\ md.status = "ok"
    /\ Len(Tests(doc)) = 2
    /\ ~HasKey(Tests(doc)[1], K_name)
    /\ HasKey(Tests(doc)[2], K_name)
    /\ Tests(doc)[2].pairs[1].val = VStr(<<" ", "n", "e", "t", ".", "e", "x", "e">>)
    /\ Len(TocItems(md.text)) = 2

(* --- the inputs table ---------------------------------------------------- *)

ArgNames == {<<"p">>, <<"o", "u", "t">>, <<"x", " ", "y">>}

ParamSpecs ==
    { VNone,
      VDict(<<Pair(K_description, VStr(<<"U", "s", "e", "r">>)), Pair(K_type, VStr(<<"s", "t", "r">>)),
              Pair(K_default, VStr(<<"c", ":", "\\", "t">>))>>),
      VDict(<<Pair(K_description, VStr(<<"a", "|", "b">>)), Pair(K_type, VStr(<<"s", "t", "r">>))>>),
      VDict(<<Pair(K_type, VStr(<<" ", "p", "a", "t", "h", " ">>)),
              Pair(K_default, VStr(<<"x", "&", "y">>))>>),
      VDict(<<Pair(K_description, VStr(<<"a", "\n", "b">>)),
              Pair(K_default, VStr(<<"1", "|", "2">>))>>) }

\* the dicts of at most n entries with distinct keys, in every insertion order
ArgDicts(n) ==
    {VDict(ps) : ps \in {q \in SeqsUpTo({Pair(key, v) : key \in ArgNames, v \in ParamSpecs}, n) :
                            \A a, b \in DOMAIN q : a # b => q[a].key # q[b].key}}

InputTests ==
    {VDict(<<Pair(K_name, VStr(<<"t">>))>>),
     VDict(<<Pair(K_name, VStr(<<"t">>)), Pair(K_input_arguments, VNone)>>)} \cup
    {VDict(<<Pair(K_name, VStr(<<"t">>)), Pair(K_input_arguments, d)>>) : d \in ArgDicts(MaxArgs)}

InitInputs == InitRender({DocWith(VList(<<t>>)) : t \in InputTests})

SpecInputs == InitInputs /\ [][Render]_vars

InputArgs(t) == OrElse(Get(t, K_input_arguments, VNone), VDict(<<>>))

\* the lines of the table: the lines that open with "|"
TableLines(text) == SelectSeq(OutputLines(text), LAMBDA l : StartsWith(l, <<"|">>))

\* the four cells of the row of the entry key: v
RowCells(key, v0) ==
    LET v == OrElse(v0, VDict(<<>>))
    IN  << <<" ">> \o Strip(key) \o <<" ">>,
           <<" ">> \o md_escape_inline(Get(v, K_description, VNone)) \o <<" ">>,
           <<" ">> \o md_escape_inline(Get(v, K_type, VNone)) \o <<" ">>,
           <<" ">> \o md_escape_table(Get(v, K_default, VNone)) >>

\* the cells of a table line: what stands between its first and last "|"
CellsOf(line) ==
    LET parts == SplitOn(line, "|")
    IN  IF Len(parts) < 2 THEN <<>> ELSE SubSeq(parts, 2, Len(parts) - 1)

\* no table for no arguments; header, separator and one four-cell row per
\* entry, in insertion order, otherwise
InputsTable ==
    LET t == Tests(doc)[1]
        ps == InputArgs(t).pairs
        ls == OutputLines(md.text)
        table == TableLines(md.text)
    IN  IF ps = <<>>
        THEN table = <<>> /\ \A i \in DOMAIN ls : ls[i] # InputsHeading
        ELSE /\ \E h \in DOMAIN ls :
                   /\ ls[h] = InputsHeading
                   /\ h + 2 + Len(ps) < Len(ls)
                   /\ ls[h + 1] = TableHeader
                   /\ ls[h + 2] = TableSeparator
                   /\ \A j \in DOMAIN ps : StartsWith(ls[h + 2 + j], <<"|">>)
                   /\ ls[h + 3 + Len(ps)] = <<>>
             /\ Len(table) = 2 + Len(ps)
             /\ \A j \in DOMAIN ps : CellsOf(table[2 + j]) = RowCells(ps[j].key, ps[j].val)

\* C5 as stated: for any strings as names, descriptions, types and defaults,
\* no table markup without arguments, and otherwise the header, the separator
\* and exactly k rows of four cells in insertion order.
C5_AnyText == (pc = "rendered" /\ md.status = "ok") => InputsTable

\* every cell of every row is free of "|" and of line breaks
PlainCells(t) ==
    \A j \in DOMAIN InputArgs(t).pairs :
        \A c \in DOMAIN RowCells(InputArgs(t).pairs[j].key, InputArgs(t).pairs[j].val) :
            LET txt == RowCells(InputArgs(t).pairs[j].key, InputArgs(t).pairs[j].val)[c]
            IN  "|" \notin Range(txt) /\ ~HasLineBreak(txt)

\* C5 amended: when no name, description, type or default holds a "|" or a
\* line break, no table markup without arguments, and otherwise the header,
\* the separator and exactly k rows of four cells in insertion order.
C5_PlainText ==
    (pc = "rendered" /\ md.status = "ok" /\ PlainCells(Tests(doc)[1])) => InputsTable

\* two arguments, the second with a backslash in its default, were rendered
C5_Witness ==
    /\ pc = "rendered" /\ md.status = "ok"
    /\ PlainCells(Tests(doc)[1])
    /\ Len(InputArgs(Tests(doc)[1]).pairs) = 2
    /\ InputArgs(Tests(doc)[1]).pairs[1].val = VNone
    /\ InputArgs(Tests(doc)[1]).pairs[2].val.k = "dict"
    /\ Contains(md.text, BackslashEntity)
    /\ Len(TableLines(md.text)) = 4

(* --- the commands heading ------------------------------------------------ *)

\* no pair, or one pair with the key and one of the values
Opt(key, vals) == {<<>>} \cup {<<Pair(key, v)>> : v \in vals}

ExecDicts ==
    {VDict(a \o b \o c \o d) :
        a \in Opt(K_name, {VStr(<<>>), VStr(<<"s", "h">>),
                           VStr(<<"P", "o", "w", "e", "r", "S", "h", "e", "l", "l">>)}),
        b \in Opt(K_elevation_required,
                  {VNone, VBool(TRUE), VBool(FALSE), VInt(1), VStr(<<"t", "r", "u", "e">>)}),
        c \in Opt(K_command, {VStr(<<"i", "d">>)}),
        d \in Opt(K_cleanup_command, {VStr(<<"r", "m", " ", "x">>)})}

ExecTests ==
    {VDict(<<Pair(K_name, VStr(<<"t">>))>>)} \cup
    {VDict(<<Pair(K_name, VStr(<<"t">>)), Pair(K_executor, e)>>) :
        e \in ExecDicts \cup {VNone, VStr(<<"s", "h">>)}}

InitExec == InitRender({DocWith(VList(<<t>>)) : t \in ExecTests})

SpecExec == InitExec /\ [][Render]_vars

\* executor.elevation_required is the boolean true
ElevationIsTrue(t) ==
    /\ HasKey(t, K_executor)
    /\ IsDict(Get(t, K_executor, VNone))
    /\ Get(Get(t, K_executor, VNone), K_elevation_required, VNone) = VBool(TRUE)

CommandsLines(text) == SelectSeq(OutputLines(text), LAMBDA l : StartsWith(l, AttackCommands))

\* C7: the commands heading ends with the elevation warning if and only if
\* executor.elevation_required is exactly true, with and without an executor name.
C7_ElevationSuffix ==
    (pc = "rendered" /\ md.status = "ok")
    => /\ Len(CommandsLines(md.text)) = 1
       /\ EndsWith(CommandsLines(md.text)[1], ElevationRequired)
            <=> ElevationIsTrue(Tests(doc)[1])

(* --- fields of every shape ----------------------------------------------- *)

Shapes ==
    { VNone, VBool(TRUE), VInt(3), VStr(<<"a", "b">>),
      VList(<<>>), VList(<<VStr(<<"x">>)>>), VList(<<VInt(1)>>),
      VDict(<<>>), VDict(<<Pair(<<"k">>, VStr(<<"v">>))>>) }

TestFields ==
    {K_name, K_description, K_supported_platforms, K_auto_generated_guid,
     K_input_arguments, K_executor}
ExecFields == {K_name, K_command, K_cleanup_command, K_elevation_required}
ParamFields == {K_description, K_type, K_default}

ShapeTests ==
    Shapes \cup
    {VDict(<<Pair(f, v)>>) : f \in TestFields, v \in Shapes} \cup
    {VDict(<<Pair(K_executor, VDict(<<Pair(f, v)>>))>>) : f \in ExecFields, v \in Shapes} \cup
    {VDict(<<Pair(K_input_arguments, VDict(<<Pair(<<"p">>, v)>>))>>) : v \in Shapes} \cup
    {VDict(<<Pair(K_input_arguments, VDict(<<Pair(<<"p">>, VDict(<<Pair(f, v)>>))>>))>>) :
        f \in ParamFields, v \in Shapes}

ShapeDocs ==
    {VDict(<<>>)} \cup {DocWith(v) : v \in Shapes} \cup {DocWith(VList(<<t>>)) : t \in ShapeTests}

InitShapes == InitRender(ShapeDocs)

SpecShapes == InitShapes /\ [][Render]_vars

\* C4: for a document that is a mapping, whatever the shape of its fields,
\* build_markdown returns a whole document and never raises.
C4_RenderIsTotal ==
    pc = "rendered" => (md.status = "ok" /\ EndsWith(md.text, Br \o <<"\n">>))

-----------------------------------------------------------------------------
(* The anchor slugger applied to a heading, and again to its result.       *)

SlugAlphabet == {"A", "b", "1", "_", " ", "\t", "\n", "-", ".", "#"}

\* "Atomic Test #1 - Install net.exe"
ExampleHeading ==
    <<"A", "t", "o", "m", "i", "c", " ", "T", "e", "s", "t", " ", "#", "1", " ", "-", " ",
      "I", "n", "s", "t", "a", "l", "l", " ", "n", "e", "t", ".", "e", "x", "e">>

\* "atomic-test-1---install-netexe"
ExampleAnchor ==
    <<"a", "t", "o", "m", "i", "c", "-", "t", "e", "s", "t", "-", "1", "-", "-", "-",
      "i", "n", "s", "t", "a", "l", "l", "-", "n", "e", "t", "e", "x", "e">>

InitSlug ==
    /\ pc = "heading"
    /\ s \in TextsUpTo(SlugAlphabet, MaxLen) \cup {ExampleHeading}
    /\ anchor = <<>> /\ reanchor = <<>>
    /\ IdleCell /\ IdlePair /\ IdleRender /\ IdleMain

\* anchor = slugify_github_anchor(heading)
Slugify ==
    /\ pc = "heading"
    /\ anchor' = slugify_github_anchor(s)
    /\ pc' = "slugged"
    /\ UNCHANGED <<s, reanchor, cellVars, pairVars, renderVars, mainVars>>

\* the anchor slugged again
Reslugify ==
    /\ pc = "slugged"
    /\ reanchor' = slugify_github_anchor(anchor)
    /\ pc' = "reslugged"
    /\ UNCHANGED <<s, anchor, cellVars, pairVars, renderVars, mainVars>>

NextSlug == Slugify \/ Reslugify

SpecSlug == InitSlug /\ [][NextSlug]_vars

\* C2: the anchor of "Atomic Test #1 - Install net.exe" is
\* "atomic-test-1---install-netexe", with the run of three hyphens.
C2_ExampleAnchor == (pc = "slugged" /\ s = ExampleHeading) => anchor = ExampleAnchor

\* C3: slugging is idempotent: slugging an anchor again gives the same anchor.
C3_Idempotent == pc = "reslugged" => reanchor = anchor

\* a heading with whitespace before a hyphen has been slugged twice
C3_Witness ==
    /\ pc = "reslugged"
    /\ \E i \in 1..(Len(s) - 1) : IsSpace(s[i]) /\ s[i + 1] = "-"
    /\ Len(anchor) >= 2
    /\ reanchor = anchor

-----------------------------------------------------------------------------
(* The table-cell escaper applied to a value.                              *)

CellAlphabet == {"\\", "&", "<", "a", " ", "\""}

CellValues ==
    {VNone, VInt(5), VBool(TRUE)} \cup {VStr(t) : t \in TextsUpTo(CellAlphabet, MaxCellLen)}

InitCell ==
    /\ pc = "cell"
    /\ cell \in CellValues
    /\ escaped = <<>>
    /\ IdleSlug /\ IdlePair /\ IdleRender /\ IdleMain

\* md_escape_table(v.get('default'))
EscapeTable ==
    /\ pc = "cell"
    /\ escaped' = md_escape_table(cell)
    /\ pc' = "escaped"
    /\ UNCHANGED <<cell, slugVars, pairVars, renderVars, mainVars>>

SpecCell == InitCell /\ [][EscapeTable]_vars

AmpEntity == <<"&", "a", "m", "p", ";">>

\* C6: None gives the empty string; otherwise the trimmed text is HTML-escaped
\* once and then every backslash becomes "&#92;": no backslash is left, each
\* backslash is one "&#92;" whose ampersand is not escaped again, each "&" is
\* one "&amp;", and a backslash followed by "&" gives "&#92;&amp;".
C6_TableCell ==
    pc = "escaped" =>
        IF cell = VNone THEN escaped = <<>>
        ELSE LET t == Strip(PyStr(cell))
             IN  /\ Count(escaped, "\\") = 0
                 /\ Occurrences(escaped, BackslashEntity) = Count(t, "\\")
                 /\ Occurrences(escaped, AmpEntity) = Count(t, "&")
                 /\ ~Contains(escaped, AmpEntity \o <<"#", "9", "2", ";">>)
                 /\ Len(escaped) = Len(t) + 4 * Count(t, "\\") + 4 * Count(t, "&")
                                     + 3 * Count(t, "<") + 5 * Count(t, "\"")
                 /\ (t = <<"\\", "&">>) =>
                        escaped = <<"&", "#", "9", "2", ";", "&", "a", "m", "p", ";">>

\* a backslash followed by "&" has been escaped
C6_Witness ==
    /\ pc = "escaped"
    /\ cell = VStr(<<"\\", "&">>)
    /\ escaped = <<"&", "#", "9", "2", ";", "&", "a", "m", "p", ";">>

-----------------------------------------------------------------------------
(* The anchors of two entries of one table of contents.                    *)

PairAlphabet == {"1", "-", " "}

PairTests ==
    {VDict(<<>>)} \cup {VDict(<<Pair(K_name, VStr(n))>>) : n \in TextsUpTo(PairAlphabet, MaxNameLen)}

InitPair ==
    /\ pc = "pair"
    /\ pair \in {[i |-> i, j |-> j, ti |-> ti, tj |-> tj] :
                    i \in 1..MaxIndex, j \in 1..MaxIndex, ti \in PairTests, tj \in PairTests}
    /\ pair.i < pair.j
    /\ anchors = <<>>
    /\ IdleSlug /\ IdleCell /\ IdleRender /\ IdleMain

\* the anchors the table-of-contents loop computes at the positions i and j
ComputeAnchors ==
    /\ pc = "pair"
    /\ anchors' = <<TocAnchor(pair.i, pair.ti), TocAnchor(pair.j, pair.tj)>>
    /\ pc' = "anchored"
    /\ UNCHANGED <<pair, slugVars, cellVars, renderVars, mainVars>>

SpecPair == InitPair /\ [][ComputeAnchors]_vars

\* C10: the link targets of two tests at different positions differ, whatever
\* their names.
C10_DistinctAnchors == pc = "anchored" => anchors[1] # anchors[2]

\* the positions 1 and 11, the first name beginning with the digit 1
C10_Witness ==
    /\ pc = "anchored"
    /\ pair.i = 1 /\ pair.j = 11
    /\ Get(pair.ti, K_name, VNone) = VStr(<<"1">>)
    /\ Get(pair.tj, K_name, VNone) = VStr(<<>>)
    /\ anchors[1] # anchors[2]

-----------------------------------------------------------------------------
(* main: load, shape check, description, render, write.                    *)

\* what yaml.safe_load gives for the input file; YamlError: it raises
YamlError == [k |-> "error"]

MainYaml ==
    { YamlError, VNone, VList(<<VStr(<<"x">>)>>), VStr(<<"x">>),
      VDict(<<Pair(K_atomic_tests, VList(<<VDict(<<Pair(K_name, VStr(<<"t">>))>>)>>))>>),
      DocWith(VList(<<>>)),
      DocWith(VList(<<VDict(<<Pair(K_name, VStr(<<"t">>))>>)>>)),
      DocWith(VList(<<VNone>>)) }

\* the description file: its text, or "unreadable" when read_text raises
FileStates == {"text", "empty", "unreadable"}

FileText(state) == IF state = "text" THEN <<" ", "d", "e", "s", "c", "\n">> ELSE <<>>

\* the course of fetch_mitre_description
FetchOutcomes ==
    {"import_error", "request_error", "http_error", "parser_error", "no_text", "text"}

InitMain ==
    /\ pc = "start"
    /\ args \in [attack_desc_file : BOOLEAN, fetch_mitre : BOOLEAN]
    /\ env \in [yaml : MainYaml, file : FileStates, fetch : FetchOutcomes]
    /\ doc = VNone /\ attack_desc = VNone /\ md = NoResult
    /\ outfile = <<>> /\ log = <<>>
    /\ IdleSlug /\ IdleCell /\ IdlePair

\* read_attack_desc_from_file raises
ReadRaises(state) == state = "unreadable"

read_attack_desc_from_file(state) == VStr(Strip(FileText(state)))

\* fetch_mitre_description raises: BeautifulSoup(...) stands outside the try blocks
FetchRaises(outcome) == outcome = "parser_error"

fetch_mitre_description(outcome) ==
    IF outcome = "text" THEN VStr(<<"d", "e", "s", "c">>) ELSE VNone

\* doc = yaml.safe_load(ypath.read_text(encoding="utf-8"))
LoadYaml ==
    /\ pc = "start"
    /\ IF env.yaml = YamlError
       THEN pc' = "aborted" /\ log' = log \o <<"load", "abort">> /\ UNCHANGED doc
       ELSE pc' = "loaded" /\ log' = Append(log, "load") /\ doc' = env.yaml
    /\ UNCHANGED <<attack_desc, md, args, env, outfile, slugVars, cellVars, pairVars>>

\* the shape check that takes an empty input for an empty document
ShapeCheckLenient ==
    /\ pc = "loaded"
    /\ IF IsDict(doc) \/ ~Truthy(doc)
       THEN /\ pc' = "checked" /\ log' = Append(log, "shape_ok")
            /\ doc' = IF IsDict(doc) THEN doc ELSE VDict(<<>>)
       ELSE pc' = "aborted" /\ log' = Append(log, "abort") /\ UNCHANGED doc
    /\ UNCHANGED <<attack_desc, md, args, env, outfile, slugVars, cellVars, pairVars>>

\* if not isinstance(doc, dict): raise SystemExit(...)
ShapeCheck ==
    /\ pc = "loaded"
    /\ IF IsDict(doc)
       THEN pc' = "checked" /\ log' = Append(log, "shape_ok")
       ELSE pc' = "aborted" /\ log' = Append(log, "abort")
    /\ UNCHANGED <<doc, attack_desc, md, args, env, outfile, slugVars, cellVars, pairVars>>

\* the description: from the file, else from the fetch, else none
ObtainDescription ==
    /\ pc = "checked"
    /\ LET tech == md_escape_inline(Get(doc, K_attack_technique, VStr(<<>>)))
       IN  IF args.attack_desc_file
           THEN IF ReadRaises(env.file)
                THEN /\ pc' = "aborted" /\ log' = log \o <<"read_file", "abort">>
                     /\ UNCHANGED attack_desc
                ELSE /\ pc' = "described" /\ log' = Append(log, "read_file")
                     /\ attack_desc' = read_attack_desc_from_file(env.file)
           ELSE IF args.fetch_mitre /\ tech # <<>>
           THEN IF FetchRaises(env.fetch)
                THEN /\ pc' = "aborted" /\ log' = log \o <<"fetch", "abort">>
                     /\ UNCHANGED attack_desc
                ELSE /\ pc' = "described" /\ log' = Append(log, "fetch")
                     /\ attack_desc' = fetch_mitre_description(env.fetch)
           ELSE pc' = "described" /\ UNCHANGED <<log, attack_desc>>
    /\ UNCHANGED <<doc, md, args, env, outfile, slugVars, cellVars, pairVars>>

\* md = build_markdown(doc, attack_desc=attack_desc)
BuildMarkdown ==
    /\ pc = "described"
    /\ md' = build_markdown(doc, attack_desc)
    /\ IF md'.status = "ok"
       THEN pc' = "built" /\ log' = Append(log, "render")
       ELSE pc' = "aborted" /\ log' = log \o <<"render", "abort">>
    /\ UNCHANGED <<doc, attack_desc, args, env, outfile, slugVars, cellVars, pairVars>>

\* out.write_text(md, encoding="utf-8")
WriteOutput ==
    /\ pc = "built"
    /\ outfile' = md.text
    /\ log' = Append(log, "write")
    /\ pc' = "written"
    /\ UNCHANGED <<doc, attack_desc, md, args, env, slugVars, cellVars, pairVars>>

NextMain == LoadYaml \/ ShapeCheck \/ ObtainDescription \/ BuildMarkdown \/ WriteOutput

SpecMain == InitMain /\ [][NextMain]_vars

\* the position of the first occurrence of the event e in the log, 0 if none
Position(e) ==
    IF e \in Range(log) THEN CHOOSE n \in DOMAIN log : log[n] = e /\ \A m \in 1..(n - 1) : log[m] # e
    ELSE 0

\* C8: the output is written at most once, after the input parsed into a
\* mapping and build_markdown returned; an input that is no mapping aborts at
\* the shape check, before any description is read or fetched, before
\* rendering, and nothing is written.
C8_WriteOnceAfterRender ==
    /\ Count(log, "write") <= 1
    /\ (outfile # <<>>) => "write" \in Range(log)
    /\ "write" \in Range(log) =>
          /\ IsDict(env.yaml) /\ md.status = "ok" /\ outfile = md.text
          /\ 0 < Position("shape_ok") /\ Position("shape_ok") < Position("render")
          /\ Position("render") < Position("write")
    /\ (~IsDict(env.yaml) /\ pc \notin {"start", "loaded"}) =>
          /\ pc = "aborted"
          /\ Range(log) \cap {"shape_ok", "read_file", "fetch", "render", "write"} = {}
          /\ attack_desc = VNone /\ md = NoResult /\ outfile = <<>>

\* an empty input was refused at the shape check, nothing read or written
C8_Witness ==
    /\ pc = "aborted" /\ env.yaml = VNone /\ args.attack_desc_file
    /\ log = <<"load", "abort">> /\ outfile = <<>>

\* C9: a failure while obtaining the description never aborts the run: the
\* description is absent, the document is rendered and the output written.
C9_DescriptionFailureTolerated ==
    pc = "aborted" =>
        ~(Len(log) >= 2 /\ log[Len(log) - 1] \in {"read_file", "fetch"})
====
